---- MODULE Spec2Model ----
(***************************************************************************)
(* A model of dbt-core's utility layer (core/dbt/utils.py) and of the two  *)
(* task entry points exercised by tests/unit/task.                         *)
(*                                                                         *)
(* Each component has its own variables, initial condition and next-state  *)
(* relation; a specification runs one component and holds the variables of *)
(* the others at their idle values.                                        *)
(*                                                                         *)
(*   SpecRetry      _connection_exception_retry                            *)
(*   SpecMultiDict  MultiDict                                              *)
(*   SpecFqn        fqn_search                                             *)
(*   SpecTranslate  Translator, translate_aliases                          *)
(*   SpecMemo       memoized                                               *)
(*   SpecTask       RunTask / CloneTask: get_graph_queue, execute_nodes    *)
(***************************************************************************)
EXTENDS Integers, Sequences, FiniteSets

VARIABLES
    \* ---- _connection_exception_retry(fn, max_attempts, attempt) ----
    fn_script,      \* what fn() does on its 1st, 2nd, ... invocation
    max_attempts,   \* the max_attempts argument
    attempt,        \* the attempt argument of the innermost frame
    calls,          \* how many times fn() has been invoked
    log,            \* observable side effects, in order
    outcome,        \* how the outermost call ended (or "running")
    \* ---- MultiDict ----
    sources,        \* self.sources: the list of mappings, oldest first
    md_last,        \* the last operation called on the MultiDict and its result
    \* ---- fqn_search(root, fqn), a generator ----
    fq_arg_root,    \* the root argument
    fq_fqn,         \* the fqn argument
    fq_root,        \* the local variable root
    fq_pos,         \* how many elements of fqn the for loop has taken
    fq_pc,          \* where the generator is suspended
    fq_yielded,     \* the values yielded so far, in order
    fq_gets,        \* the keys passed to root.get so far, in order
    \* ---- translate_aliases(kwargs, aliases, recurse) ----
    tr_heap,        \* the objects the arguments are made of, by identity
    tr_aliases,     \* the aliases argument
    tr_recursive,   \* the recurse argument
    tr_raised,      \* what translate_mapping raised inside Translator.translate
    tr_result,      \* what translate_aliases returned or raised
    \* ---- memoized ----
    cache,          \* self.cache: argument tuple -> cached value
    memo_evals,     \* the argument tuples self.func was called with, in order
    memo_calls,     \* how many times the memoized object was called
    memo_last,      \* the last call of the memoized object and how it ended
    \* ---- RunTask / CloneTask ----
    task,           \* which task type: "run" or "clone"
    selection_spec, \* what get_selection_spec returns: the selected nodes
    selector_calls, \* the calls node_selector.get_graph_queue received
    queue_edges,    \* the scheduling edges of the graph queue
    status,         \* node -> Pending, Running, Success, Error, Skipped
    tk_pc,          \* where the task is
    run_raised,     \* what the run loop raised inside execute_nodes
    task_raised,    \* what execute_nodes raised to its caller
    cancel_calls    \* calls of the connection-cancel operation

retryVars == <<fn_script, max_attempts, attempt, calls, log, outcome>>
mdVars == <<sources, md_last>>
fqVars == <<fq_arg_root, fq_fqn, fq_root, fq_pos, fq_pc, fq_yielded, fq_gets>>
trVars == <<tr_heap, tr_aliases, tr_recursive, tr_raised, tr_result>>
memoVars == <<cache, memo_evals, memo_calls, memo_last>>
taskVars == <<task, selection_spec, selector_calls, queue_edges, status, tk_pc,
              run_raised, task_raised, cancel_calls>>

vars == <<retryVars, mdVars, fqVars, trVars, memoVars, taskVars>>

\* What each component leaves alone.
nonRetryVars == <<mdVars, fqVars, trVars, memoVars, taskVars>>
nonMdVars == <<retryVars, fqVars, trVars, memoVars, taskVars>>
nonFqVars == <<retryVars, mdVars, trVars, memoVars, taskVars>>
nonTrVars == <<retryVars, mdVars, fqVars, memoVars, taskVars>>
nonMemoVars == <<retryVars, mdVars, fqVars, trVars, taskVars>>
nonTaskVars == <<retryVars, mdVars, fqVars, trVars, memoVars>>

(***************************************************************************)
(* Bounds of the model.                                                    *)
(***************************************************************************)
MaxAttemptsArg == 3     \* max_attempts ranges over 0..MaxAttemptsArg
MaxScriptLen == 4       \* fn's scripted outcomes; afterwards fn succeeds
MaxInitLayers == 1      \* MultiDict(sources): at most this many layers passed in
MaxLayers == 3          \* MultiDict: layers are added up to this many
MaxAddFrom == 2         \* MultiDict.add_from: at most this many layers at once
MaxEntries == 3         \* fqn_search: entries of the root mapping, nested ones included
MaxFqnLen == 3          \* fqn_search: segments of the fqn
MaxListLen == 2         \* translate: elements of a list value
RecursionLimit == 8     \* translate: frames the interpreter allows
MaxMemoCalls == 4       \* memoized: calls of the wrapped function
MaxThreads == 2         \* task: nodes running at once

(***************************************************************************)
(* _connection_exception_retry                                             *)
(***************************************************************************)

\* What one invocation of fn() can do: return, or raise one of these.
TransientExceptions == {"RequestException", "ReadError", "EOFError"}
OtherExceptions == {"ValueError"}
FnOutcomes == {"ok"} \cup TransientExceptions \cup OtherExceptions

\* time.sleep(1)
SleepSeconds == 1

RECURSIVE SeqsUpTo(_, _)
SeqsUpTo(S, n) ==
    IF n = 0 THEN {<<>>}
    ELSE LET shorter == SeqsUpTo(S, n - 1)
         IN  shorter \cup {Append(s, x) : s \in {t \in shorter : Len(t) = n - 1}, x \in S}

\* The except clause: does it catch exc?
IsTransientCatchAll(exc) == TRUE
IsTransient(exc) == exc \in TransientExceptions

\* The guard of the retry branch.
MayRetryOffByOne(att, max) == att <= max
MayRetry(att, max) == att <= max - 1

\* fire_event(RetryExternalCall(attempt=attempt, max=max_attempts))
RetryExternalCallNext(att, max) == [kind |-> "RetryExternalCall", attempt |-> att + 1, max |-> max]
RetryExternalCall(att, max) == [kind |-> "RetryExternalCall", attempt |-> att, max |-> max]

\* fire_event(RecordRetryException(exc=str(exc)))
RecordRetryException(exc) == [kind |-> "RecordRetryException", exc |-> exc]

CallEntry == [kind |-> "call"]
SleepEntry(secs) == [kind |-> "sleep", secs |-> secs]

\* fn(): the next scripted outcome; fn succeeds once the script is used up.
FnResult == IF calls < Len(fn_script) THEN fn_script[calls + 1] ELSE "ok"

RetryInit ==
    /\ fn_script \in SeqsUpTo(FnOutcomes, MaxScriptLen)
    /\ max_attempts \in 0..MaxAttemptsArg
    /\ attempt = 0
    /\ calls = 0
    /\ log = <<>>
    /\ outcome = [kind |-> "running"]

RetryIdle ==
    /\ fn_script = <<>>
    /\ max_attempts = 0
    /\ attempt = 0
    /\ calls = 0
    /\ log = <<>>
    /\ outcome = [kind |-> "idle"]

MdIdle ==
    /\ sources = <<>>
    /\ md_last = [op |-> "idle"]

FqIdle ==
    /\ fq_arg_root = [kind |-> "None"]
    /\ fq_fqn = <<>>
    /\ fq_root = [kind |-> "None"]
    /\ fq_pos = 0
    /\ fq_pc = "idle"
    /\ fq_yielded = <<>>
    /\ fq_gets = <<>>

TrIdle ==
    /\ tr_heap = <<>>
    /\ tr_aliases = <<>>
    /\ tr_recursive = FALSE
    /\ tr_raised = [kind |-> "None"]
    /\ tr_result = [kind |-> "idle"]

MemoIdle ==
    /\ cache = <<>>
    /\ memo_evals = <<>>
    /\ memo_calls = 0
    /\ memo_last = [kind |-> "idle"]

TaskIdle ==
    /\ task = "none"
    /\ selection_spec = {}
    /\ selector_calls = <<>>
    /\ queue_edges = {}
    /\ status = <<>>
    /\ tk_pc = "idle"
    /\ run_raised = "none"
    /\ task_raised = "none"
    /\ cancel_calls = 0

\* One frame: fn() returns.
FnReturns ==
    /\ outcome.kind = "running"
    /\ FnResult = "ok"
    /\ calls' = calls + 1
    /\ log' = Append(log, CallEntry)
    /\ outcome' = [kind |-> "returned", value |-> "ok"]
    /\ UNCHANGED <<fn_script, max_attempts, attempt>>
    /\ UNCHANGED nonRetryVars

\* One frame: fn() raises a caught exception and the frame recurses.
RetryAfterTransient ==
    /\ outcome.kind = "running"
    /\ FnResult # "ok"
    /\ IsTransient(FnResult)
    /\ MayRetry(attempt, max_attempts)
    /\ calls' = calls + 1
    /\ log' = log \o <<CallEntry,
                       RecordRetryException(FnResult),
                       RetryExternalCall(attempt, max_attempts),
                       SleepEntry(SleepSeconds)>>
    /\ attempt' = attempt + 1
    /\ UNCHANGED <<fn_script, max_attempts, outcome>>
    /\ UNCHANGED nonRetryVars

\* One frame: fn() raises a caught exception and the attempts are used up.
RaiseConnectionError ==
    /\ outcome.kind = "running"
    /\ FnResult # "ok"
    /\ IsTransient(FnResult)
    /\ ~MayRetry(attempt, max_attempts)
    /\ calls' = calls + 1
    /\ log' = Append(log, CallEntry)
    /\ outcome' = [kind |-> "raised", exc |-> "ConnectionError", cause |-> FnResult]
    /\ UNCHANGED <<fn_script, max_attempts, attempt>>
    /\ UNCHANGED nonRetryVars

\* One frame: fn() raises an exception the except clause does not name.
PropagateUncaught ==
    /\ outcome.kind = "running"
    /\ FnResult # "ok"
    /\ ~IsTransient(FnResult)
    /\ calls' = calls + 1
    /\ log' = Append(log, CallEntry)
    /\ outcome' = [kind |-> "raised", exc |-> FnResult]
    /\ UNCHANGED <<fn_script, max_attempts, attempt>>
    /\ UNCHANGED nonRetryVars

InitRetry == RetryInit /\ MdIdle /\ FqIdle /\ TrIdle /\ MemoIdle /\ TaskIdle

NextRetry ==
    \/ FnReturns
    \/ RetryAfterTransient
    \/ RaiseConnectionError
    \/ PropagateUncaught

SpecRetry == InitRetry /\ [][NextRetry]_vars

(***************************************************************************)
(* Properties of _connection_exception_retry                               *)
(***************************************************************************)

\* k: on how many leading invocations fn fails with a transient failure.
FailPrefix ==
    LET isPrefix(j) == \A i \in 1..j : fn_script[i] \in TransientExceptions
    IN  CHOOSE j \in 0..Len(fn_script) :
            /\ isPrefix(j)
            /\ \A m \in 0..Len(fn_script) : isPrefix(m) => m <= j

\* What fn does on the invocation after those k failures.
AfterFailPrefix ==
    IF FailPrefix < Len(fn_script) THEN fn_script[FailPrefix + 1] ELSE "ok"

LogCount(kind) == Cardinality({i \in DOMAIN log : log[i].kind = kind})
Retries == LogCount("RetryExternalCall")
Sleeps == LogCount("sleep")
RetryFinished == outcome.kind \in {"returned", "raised"}

C2_NonTransientPropagates ==
    (RetryFinished /\ AfterFailPrefix \in OtherExceptions /\ FailPrefix <= max_attempts)
        => /\ outcome = [kind |-> "raised", exc |-> AfterFailPrefix]
           /\ calls = FailPrefix + 1
           /\ Retries = FailPrefix
           /\ Sleeps = FailPrefix
           /\ LogCount("RecordRetryException") = FailPrefix
           /\ log[Len(log)] = CallEntry
           /\ ~ENABLED NextRetry

\* A non-transient failure on the third invocation, after two retries.
C2_Witness ==
    /\ outcome = [kind |-> "raised", exc |-> "ValueError"]
    /\ FailPrefix = 2
    /\ calls = 3
    /\ max_attempts = 3

\* C9: the retry notifications of one call carry attempt 0, 1, 2, ... in
\* order and max = max_attempts, every attempt index is at most
\* max_attempts - 1; each notification is followed by exactly one wait of 1
\* and then by the next invocation of fn; every wait follows a notification;
\* an invocation that succeeds or that ends the call emits none.
C9_RetryNotifications ==
    /\ \A p \in DOMAIN log :
          log[p].kind = "RetryExternalCall" =>
             /\ log[p].attempt = Cardinality({q \in 1..(p - 1) : log[q].kind = "RetryExternalCall"})
             /\ log[p].max = max_attempts
             /\ log[p].attempt <= max_attempts - 1
             /\ p + 1 <= Len(log)
             /\ log[p + 1] = [kind |-> "sleep", secs |-> 1]
             /\ p + 2 <= Len(log) => log[p + 2] = CallEntry
             /\ p > 1 /\ log[p - 1].kind = "RecordRetryException"
    /\ \A p \in DOMAIN log :
          log[p].kind = "sleep" => p > 1 /\ log[p - 1].kind = "RetryExternalCall"
    /\ \A p \in DOMAIN log :
          (log[p] = CallEntry /\ p > 1) => log[p - 1].kind = "sleep"
    /\ Sleeps = Retries
    /\ RetryFinished => /\ log[Len(log)] = CallEntry
                        /\ Retries = calls - 1
    /\ outcome.kind = "running" => Retries = calls

\* Two retries were notified (attempts 0 and 1) and the third invocation succeeded.
C9_Witness ==
    /\ outcome.kind = "returned"
    /\ Retries = 2
    /\ \E p, q \in DOMAIN log :
          /\ p < q
          /\ log[p] = [kind |-> "RetryExternalCall", attempt |-> 0, max |-> max_attempts]
          /\ log[q] = [kind |-> "RetryExternalCall", attempt |-> 1, max |-> max_attempts]

(***************************************************************************)
(* MultiDict                                                               *)
(***************************************************************************)

MdKeys == {"x", "y"}
MdValues == {1, 2}

\* A StringMap: a mapping defined on some of the keys.
StringMaps == UNION {[D -> MdValues] : D \in SUBSET MdKeys}

KeyError(name) == [kind |-> "KeyError", name |-> name]
Found(value) == [kind |-> "value", value |-> value]

RECURSIVE Reversed(_)
Reversed(s) == IF s = <<>> THEN <<>> ELSE Append(Reversed(Tail(s)), Head(s))

\* _itersource: reversed(self.sources)
ItersourceForward(srcs) == srcs
Itersource(srcs) == Reversed(srcs)

\* __getitem__: the first entry of the iteration that has the name.
RECURSIVE GetItemFrom(_, _)
GetItemFrom(it, name) ==
    IF it = <<>> THEN KeyError(name)
    ELSE IF name \in DOMAIN Head(it) THEN Found(Head(it)[name])
    ELSE GetItemFrom(Tail(it), name)

GetItem(srcs, name) == GetItemFrom(Itersource(srcs), name)

\* __contains__: any(name in entry for entry in self._itersource())
Contains(srcs, name) ==
    LET it == Itersource(srcs) IN \E i \in DOMAIN it : name \in DOMAIN it[i]

\* _keyset: the union of the entries' keys.
Keyset(srcs) ==
    LET it == Itersource(srcs) IN UNION {DOMAIN it[i] : i \in DOMAIN it}

\* __init__
MdInit ==
    /\ sources \in SeqsUpTo(StringMaps, MaxInitLayers)
    /\ md_last = [op |-> "init"]

\* add(source)
Add ==
    /\ Len(sources) < MaxLayers
    /\ \E source \in StringMaps :
          /\ sources' = Append(sources, source)
          /\ md_last' = [op |-> "add"]
    /\ UNCHANGED nonMdVars

\* add_from(sources)
AddFrom ==
    /\ \E more \in SeqsUpTo(StringMaps, IF MaxLayers - Len(sources) < MaxAddFrom
                                         THEN MaxLayers - Len(sources) ELSE MaxAddFrom) :
          /\ Len(sources) + Len(more) <= MaxLayers
          /\ sources' = sources \o more
          /\ md_last' = [op |-> "add_from", n |-> Len(more)]
    /\ UNCHANGED nonMdVars

\* multidict[name]
GetItemCall ==
    /\ \E name \in MdKeys :
          md_last' = [op |-> "getitem", name |-> name, result |-> GetItem(sources, name)]
    /\ UNCHANGED sources
    /\ UNCHANGED nonMdVars

\* name in multidict
ContainsCall ==
    /\ \E name \in MdKeys :
          md_last' = [op |-> "contains", name |-> name, result |-> Contains(sources, name)]
    /\ UNCHANGED sources
    /\ UNCHANGED nonMdVars

InitMultiDict == MdInit /\ RetryIdle /\ FqIdle /\ TrIdle /\ MemoIdle /\ TaskIdle

NextMultiDict ==
    \/ Add
    \/ AddFrom
    \/ GetItemCall
    \/ ContainsCall

SpecMultiDict == InitMultiDict /\ [][NextMultiDict]_vars

(***************************************************************************)
(* Properties of MultiDict                                                 *)
(***************************************************************************)

\* The layers that hold the key, by position (1 = added first).
Holders(name) == {i \in DOMAIN sources : name \in DOMAIN sources[i]}
LatestHolder(name) == CHOOSE i \in Holders(name) : \A j \in Holders(name) : j <= i

\* What a lookup of the key must give.
ExpectedLookup(name) ==
    IF Holders(name) = {} THEN KeyError(name)
    ELSE Found(sources[LatestHolder(name)][name])

\* C4: whatever layers were passed in and added, a lookup gives the value
\* of the most recently added layer that has the key, it fails with KeyError
\* exactly when no layer has the key, and contains is false exactly then.
C4_LastLayerWins ==
    /\ \A name \in MdKeys :
          /\ GetItem(sources, name) = ExpectedLookup(name)
          /\ GetItem(sources, name).kind = "KeyError" <=> Holders(name) = {}
          /\ Contains(sources, name) <=> Holders(name) # {}
    /\ md_last.op = "getitem" => md_last.result = ExpectedLookup(md_last.name)
    /\ md_last.op = "contains" => (md_last.result <=> Holders(md_last.name) # {})

\* Layers [{x:1}, {x:2}, {y:1}]: the lookup of x has given 2, the value of
\* the second layer, although an older layer holds 1 and a newer one lacks x.
C4_Witness ==
    /\ Len(sources) = 3
    /\ sources[1] = [k \in {"x"} |-> 1]
    /\ sources[2] = [k \in {"x"} |-> 2]
    /\ sources[3] = [k \in {"y"} |-> 1]
    /\ md_last = [op |-> "getitem", name |-> "x", result |-> Found(2)]

(***************************************************************************)
(* fqn_search                                                              *)
(***************************************************************************)

\* Python values: an int, None, or a dict from strings to values.
IntVal(n) == [kind |-> "int", val |-> n]
NoneVal == [kind |-> "None"]
DictVal(items) == [kind |-> "dict", items |-> items]
EmptyItems == [k \in {} |-> NoneVal]

FqnKeys == {"a", "b", "c"}
FqnSegments == {"a", "b", "z"}
Leaves == {IntVal(1)}

PutItem(items, key, value) ==
    [k \in DOMAIN items \cup {key} |-> IF k = key THEN value ELSE items[k]]

\* The item functions over the keys ks with at most n entries in all,
\* those of nested dicts included.
RECURSIVE ItemsOver(_, _)
ItemsOver(ks, n) ==
    IF ks = {} \/ n = 0 THEN {EmptyItems}
    ELSE LET k == CHOOSE x \in ks : TRUE
             rest == ks \ {k}
         IN  ItemsOver(rest, n)
             \cup {PutItem(r, k, leaf) : r \in ItemsOver(rest, n - 1), leaf \in Leaves}
             \cup UNION {{PutItem(r, k, DictVal(sub)) :
                              sub \in ItemsOver(FqnKeys, m), r \in ItemsOver(rest, n - 1 - m)} :
                         m \in 0..(n - 1)}

Roots == {DictVal(items) : items \in ItemsOver(FqnKeys, MaxEntries)}

\* isinstance(value, dict)
IsDict(value) == value.kind = "dict"

\* root.get(level, None)
DictGet(d, key) == IF key \in DOMAIN d.items THEN d.items[key] ELSE NoneVal

\* if not isinstance(level_config, dict): break
BreaksOnNoneOnly(level_config) == level_config = NoneVal
BreaksOn(level_config) == ~IsDict(level_config)

FqInit ==
    /\ fq_arg_root \in Roots
    /\ fq_fqn \in SeqsUpTo(FqnSegments, MaxFqnLen)
    /\ fq_root = fq_arg_root
    /\ fq_pos = 0
    /\ fq_pc = "start"
    /\ fq_yielded = <<>>
    /\ fq_gets = <<>>

\* The local root once the generator is resumed: after the yield in the
\* loop body, root = level_config runs first.
ResumedRoot == IF fq_pc = "yielded_level" THEN fq_yielded[Len(fq_yielded)] ELSE fq_root

\* next(): runs to "yield root".
YieldRoot ==
    /\ fq_pc = "start"
    /\ fq_yielded' = Append(fq_yielded, fq_root)
    /\ fq_pc' = "yielded_root"
    /\ UNCHANGED <<fq_arg_root, fq_fqn, fq_root, fq_pos, fq_gets>>
    /\ UNCHANGED nonFqVars

\* next(): the loop takes a level that is a dict and yields it.
YieldLevel ==
    /\ fq_pc \in {"yielded_root", "yielded_level"}
    /\ fq_pos < Len(fq_fqn)
    /\ LET level == fq_fqn[fq_pos + 1]
           level_config == DictGet(ResumedRoot, level)
       IN  /\ ~BreaksOn(level_config)
           /\ fq_yielded' = Append(fq_yielded, level_config)
           /\ fq_gets' = Append(fq_gets, level)
    /\ fq_root' = ResumedRoot
    /\ fq_pos' = fq_pos + 1
    /\ fq_pc' = "yielded_level"
    /\ UNCHANGED <<fq_arg_root, fq_fqn>>
    /\ UNCHANGED nonFqVars

\* next(): the loop takes a level that is absent or no dict and breaks.
BreakAtLevel ==
    /\ fq_pc \in {"yielded_root", "yielded_level"}
    /\ fq_pos < Len(fq_fqn)
    /\ LET level == fq_fqn[fq_pos + 1]
           level_config == DictGet(ResumedRoot, level)
       IN  /\ BreaksOn(level_config)
           /\ fq_gets' = Append(fq_gets, level)
    /\ fq_root' = ResumedRoot
    /\ fq_pos' = fq_pos + 1
    /\ fq_pc' = "exhausted"
    /\ UNCHANGED <<fq_arg_root, fq_fqn, fq_yielded>>
    /\ UNCHANGED nonFqVars

\* next(): the loop has no level left.
FqnUsedUp ==
    /\ fq_pc \in {"yielded_root", "yielded_level"}
    /\ fq_pos = Len(fq_fqn)
    /\ fq_root' = ResumedRoot
    /\ fq_pc' = "exhausted"
    /\ UNCHANGED <<fq_arg_root, fq_fqn, fq_pos, fq_yielded, fq_gets>>
    /\ UNCHANGED nonFqVars

InitFqn == FqInit /\ RetryIdle /\ MdIdle /\ TrIdle /\ MemoIdle /\ TaskIdle

NextFqn ==
    \/ YieldRoot
    \/ YieldLevel
    \/ BreakAtLevel
    \/ FqnUsedUp

SpecFqn == InitFqn /\ [][NextFqn]_vars

(***************************************************************************)
(* Properties of fqn_search                                                *)
(***************************************************************************)

\* The value a path of keys leads to from v; None where the path leaves
\* the nested dicts.
RECURSIVE ValueAt(_, _)
ValueAt(v, path) ==
    IF path = <<>> THEN v
    ELSE IF v.kind = "dict" /\ Head(path) \in DOMAIN v.items
         THEN ValueAt(v.items[Head(path)], Tail(path))
         ELSE NoneVal

\* Every segment of the first j is present at its level and maps to a dict.
Descends(j) ==
    \A i \in 1..j : ValueAt(fq_arg_root, SubSeq(fq_fqn, 1, i)).kind = "dict"

\* The length of the longest such prefix of the fqn.
DescentDepth ==
    CHOOSE j \in 0..Len(fq_fqn) :
        Descends(j) /\ \A m \in 0..Len(fq_fqn) : Descends(m) => m <= j

\* The root, then the level each segment of that prefix leads to.
ExpectedLevels ==
    [i \in 1..(DescentDepth + 1) |-> ValueAt(fq_arg_root, SubSeq(fq_fqn, 1, i - 1))]

\* C5: the generator yields the root first and then, outermost first, the
\* level reached by each segment of the longest prefix of the fqn whose
\* segments are all present and map to dicts, 1 + that length values in all;
\* it looks no segment up after the first one that is absent or maps to
\* something else, and it can always be advanced until it is exhausted.
C5_FqnSearchLevels ==
    /\ fq_pc = "exhausted" =>
          /\ fq_yielded = ExpectedLevels
          /\ Len(fq_yielded) = 1 + DescentDepth
          /\ fq_gets = SubSeq(fq_fqn, 1, IF DescentDepth < Len(fq_fqn)
                                            THEN DescentDepth + 1 ELSE DescentDepth)
    /\ fq_pc # "exhausted" =>
          /\ Len(fq_yielded) <= Len(ExpectedLevels)
          /\ fq_yielded = SubSeq(ExpectedLevels, 1, Len(fq_yielded))
          /\ ENABLED NextFqn
    /\ fq_pc # "start" => fq_yielded[1] = fq_arg_root

\* root {a: {b: {c: 1}}} and fqn [a, b, z]: three levels were yielded.
C5_Witness ==
    /\ fq_arg_root = DictVal([k \in {"a"} |->
                        DictVal([k2 \in {"b"} |->
                           DictVal([k3 \in {"c"} |-> IntVal(1)])])])
    /\ fq_fqn = <<"a", "b", "z">>
    /\ fq_pc = "exhausted"
    /\ Len(fq_yielded) = 3
    /\ fq_yielded[3] = DictVal([k3 \in {"c"} |-> IntVal(1)])

(***************************************************************************)
(* Translator, translate_aliases                                           *)
(*                                                                         *)
(* The arguments are objects with identity: a value is an int or a         *)
(* reference to a mapping or a list, so that a structure can contain       *)
(* itself.  A mapping keeps its items in insertion order.  A mapping can   *)
(* also be one whose items() raises a RuntimeError.                        *)
(***************************************************************************)

TrKeys == {"a", "b"}
TrCanonicalOnly == {"c"}
ObjIds == {1, 2}
KwargsId == 1

RefVal(id) == [kind |-> "ref", id |-> id]
TrValues == {IntVal(1)} \cup {RefVal(id) : id \in ObjIds}

\* str(exc) of the interpreter's recursion failure, and of another RuntimeError.
RecursionMessage == "maximum recursion depth exceeded while calling a Python object"
RuntimeMessages == {"dictionary changed size during iteration",
                    "maximum recursion depth exceeded (raised by hand)"}

\* Items of a mapping: pairs <<key, value>> with distinct keys, in order.
KeyOrders == {ks \in SeqsUpTo(TrKeys, Cardinality(TrKeys)) :
                 \A i, j \in DOMAIN ks : i # j => ks[i] # ks[j]}
ItemLists == UNION {{[i \in DOMAIN ks |-> <<ks[i], vs[i]>>] : vs \in [DOMAIN ks -> TrValues]} :
                    ks \in KeyOrders}

MappingObjs == {[kind |-> "mapping", items |-> items] : items \in ItemLists}
ListObjs == {[kind |-> "list", elems |-> elems] : elems \in SeqsUpTo(TrValues, MaxListLen)}
RaisingObjs == {[kind |-> "raising_mapping", msg |-> msg] : msg \in RuntimeMessages}

AliasTables == UNION {[D -> TrKeys \cup TrCanonicalOnly] : D \in SUBSET TrKeys}

\* Results of a call: a value, or an exception.
Ok(value) == [ok |-> TRUE, value |-> value]
Raise(exc) == [ok |-> FALSE, exc |-> exc]

\* The interpreter's failure when the frames are used up: a RuntimeError.
RecursionFailure == [type |-> "RecursionError", runtime |-> TRUE, msg |-> RecursionMessage]
\* RuntimeError(msg), raised by a mapping's items().
RuntimeFailure(msg) == [type |-> "RuntimeError", runtime |-> TRUE, msg |-> msg]
\* DuplicateAliasError(kwargs, self.aliases, canonical_key).  Whether the
\* handler of translate catches it or not, it goes on as raised: its message
\* here is not the recursion message.
DuplicateAliasError(id, canonical_key) ==
    [type |-> "DuplicateAliasError", runtime |-> TRUE, msg |-> "duplicate keys",
     kwargs |-> id, canonical_key |-> canonical_key]
\* RecursionError("Cycle detected in a value passed to translate!")
CycleDetected ==
    [type |-> "dbt.RecursionError", runtime |-> FALSE,
     msg |-> "Cycle detected in a value passed to translate!"]

\* "maximum recursion depth exceeded" in str(exc)
HasRecursionMessageNever(msg) == FALSE
HasRecursionMessage(msg) ==
    msg \in {RecursionMessage, "maximum recursion depth exceeded (raised by hand)"}

\* self.aliases.get(key, key)
CanonicalKey(key) == IF key \in DOMAIN tr_aliases THEN tr_aliases[key] ELSE key

\* canonical_key in result
InResultNever(canonical_key, result) == FALSE
InResult(canonical_key, result) == \E i \in DOMAIN result : result[i][1] = canonical_key

\* result[canonical_key] = value
SetItem(result, key, value) ==
    IF \E i \in DOMAIN result : result[i][1] = key
    THEN [i \in DOMAIN result |-> IF result[i][1] = key THEN <<key, value>> ELSE result[i]]
    ELSE Append(result, <<key, value>>)

IsMappingValue(value) ==
    value.kind = "ref" /\ tr_heap[value.id].kind \in {"mapping", "raising_mapping"}
IsListValue(value) == value.kind = "ref" /\ tr_heap[value.id].kind = "list"

RECURSIVE TranslateMapping(_, _)
RECURSIVE TranslateItems(_, _, _, _)
RECURSIVE TranslateSequence(_, _)
RECURSIVE TranslateElems(_, _, _)
RECURSIVE TranslateValue(_, _)

\* translate_mapping(kwargs), kwargs the mapping object id, in frame number depth.
TranslateMapping(id, depth) ==
    IF depth > RecursionLimit THEN Raise(RecursionFailure)
    ELSE IF tr_heap[id].kind = "raising_mapping" THEN Raise(RuntimeFailure(tr_heap[id].msg))
    ELSE TranslateItems(tr_heap[id].items, <<>>, id, depth)

\* The loop of translate_mapping over the items left, result so far.
TranslateItems(items, result, id, depth) ==
    IF items = <<>> THEN Ok([kind |-> "dict", items |-> result])
    ELSE LET key == Head(items)[1]
             value == Head(items)[2]
             canonical_key == CanonicalKey(key)
         IN  IF InResult(canonical_key, result)
             THEN Raise(DuplicateAliasError(id, canonical_key))
             ELSE LET translated == TranslateValue(value, depth + 1)
                  IN  IF translated.ok
                      THEN TranslateItems(Tail(items),
                                          SetItem(result, canonical_key, translated.value),
                                          id, depth)
                      ELSE translated

\* translate_sequence(value)
TranslateSequence(id, depth) ==
    IF depth > RecursionLimit THEN Raise(RecursionFailure)
    ELSE TranslateElems(tr_heap[id].elems, <<>>, depth)

TranslateElems(elems, result, depth) ==
    IF elems = <<>> THEN Ok([kind |-> "list", elems |-> result])
    ELSE LET translated == TranslateValue(Head(elems), depth + 1)
         IN  IF translated.ok
             THEN TranslateElems(Tail(elems), Append(result, translated.value), depth)
             ELSE translated

\* translate_value(value)
TranslateValue(value, depth) ==
    IF depth > RecursionLimit THEN Raise(RecursionFailure)
    ELSE IF tr_recursive /\ IsMappingValue(value) THEN TranslateMapping(value.id, depth + 1)
    ELSE IF tr_recursive /\ IsListValue(value) THEN TranslateSequence(value.id, depth + 1)
    ELSE Ok(value)

\* The handler of Translator.translate, given what translate_mapping did.
TranslateHandler(inner) ==
    IF inner.ok THEN inner
    ELSE IF inner.exc.runtime /\ HasRecursionMessage(inner.exc.msg) THEN Raise(CycleDetected)
    ELSE inner

TrInit ==
    /\ tr_heap \in {h \in [ObjIds -> MappingObjs \cup ListObjs \cup RaisingObjs] :
                       h[KwargsId].kind # "list"}
    /\ tr_aliases \in AliasTables
    /\ tr_recursive \in BOOLEAN
    /\ tr_raised = [kind |-> "None"]
    /\ tr_result = [kind |-> "pending"]

\* translate_aliases(kwargs, aliases, recurse): Translator(aliases, recurse).translate(kwargs)
TranslateAliases ==
    /\ tr_result = [kind |-> "pending"]
    /\ LET inner == TranslateMapping(KwargsId, 2)
       IN  /\ tr_raised' = IF inner.ok THEN [kind |-> "None"] ELSE inner.exc
           /\ tr_result' = TranslateHandler(inner)
    /\ UNCHANGED <<tr_heap, tr_aliases, tr_recursive>>
    /\ UNCHANGED nonTrVars

InitTranslate == TrInit /\ RetryIdle /\ MdIdle /\ FqIdle /\ MemoIdle /\ TaskIdle

NextTranslate == TranslateAliases

SpecTranslate == InitTranslate /\ [][NextTranslate]_vars

(***************************************************************************)
(* Properties of translate_aliases                                         *)
(***************************************************************************)

ObjValues(obj) ==
    IF obj.kind = "mapping" THEN {obj.items[i][2] : i \in DOMAIN obj.items}
    ELSE IF obj.kind = "list" THEN {obj.elems[i] : i \in DOMAIN obj.elems}
    ELSE {}

\* The objects an object refers to directly.
Refs(id) == {v.id : v \in {w \in ObjValues(tr_heap[id]) : w.kind = "ref"}}

RECURSIVE ReachFrom(_)
ReachFrom(S) ==
    LET more == S \cup UNION {Refs(i) : i \in S}
    IN  IF more = S THEN S ELSE ReachFrom(more)

\* The objects a translation can enter: kwargs, and with recurse whatever
\* it leads to.
Entered == IF tr_recursive THEN ReachFrom({KwargsId}) ELSE {KwargsId}

\* An object the translation can enter contains itself.
SelfReferential == \E i \in Entered : tr_recursive /\ i \in ReachFrom(Refs(i))

\* A mapping the translation can enter raises from items().
EntersRaising == \E i \in Entered : tr_heap[i].kind = "raising_mapping"

\* Two keys of the mapping have the same canonical key.
Collides(id) ==
    /\ tr_heap[id].kind = "mapping"
    /\ \E i, j \in DOMAIN tr_heap[id].items :
          /\ i < j
          /\ CanonicalKey(tr_heap[id].items[i][1]) = CanonicalKey(tr_heap[id].items[j][1])

EntersCollision == \E i \in Entered : Collides(i)

TrDone == tr_result # [kind |-> "pending"]

RECURSIVE EntriesMatch(_, _)
RECURSIVE ValueMatches(_, _)

\* res has one entry per item of the mapping, in order, under the item's
\* canonical key, with the item's value (translated likewise with recurse).
EntriesMatch(res, id) ==
    /\ res.kind = "dict"
    /\ Len(res.items) = Len(tr_heap[id].items)
    /\ \A i \in DOMAIN res.items :
          /\ res.items[i][1] = (IF tr_heap[id].items[i][1] \in DOMAIN tr_aliases
                                THEN tr_aliases[tr_heap[id].items[i][1]]
                                ELSE tr_heap[id].items[i][1])
          /\ ValueMatches(res.items[i][2], tr_heap[id].items[i][2])

ValueMatches(res, value) ==
    IF tr_recursive /\ value.kind = "ref" /\ tr_heap[value.id].kind = "mapping"
    THEN EntriesMatch(res, value.id)
    ELSE IF tr_recursive /\ value.kind = "ref" /\ tr_heap[value.id].kind = "list"
    THEN /\ res.kind = "list"
         /\ Len(res.elems) = Len(tr_heap[value.id].elems)
         /\ \A i \in DOMAIN res.elems : ValueMatches(res.elems[i], tr_heap[value.id].elems[i])
    ELSE res = value

\* C6: when two keys of kwargs, or with recurse of a mapping nested in it,
\* have the same canonical key, translate_aliases fails and never returns a
\* mapping in which one value has replaced the other; the failure is
\* DuplicateAliasError whenever the arguments hold no self-reference and no
\* mapping that raises by itself.  When no level collides the result has
\* exactly one entry per input key, under that key's canonical name.
C6_DuplicateAliasFails ==
    TrDone =>
       /\ EntersCollision => ~tr_result.ok
       /\ (EntersCollision /\ ~SelfReferential /\ ~EntersRaising)
             => (~tr_result.ok /\ tr_result.exc.type = "DuplicateAliasError")
       /\ (~tr_result.ok /\ tr_result.exc.type = "DuplicateAliasError")
             => /\ Collides(tr_result.exc.kwargs)
                /\ tr_result.exc.kwargs \in Entered
       /\ (~EntersCollision /\ ~SelfReferential /\ ~EntersRaising) => tr_result.ok
       /\ tr_result.ok => EntriesMatch(tr_result.value, KwargsId)

\* kwargs {a: 1, b: 1} with a and b both aliases of c: DuplicateAliasError on c.
C6_Witness ==
    /\ TrDone
    /\ tr_heap[KwargsId] = [kind |-> "mapping",
                            items |-> <<<<"a", IntVal(1)>>, <<"b", IntVal(1)>>>>]
    /\ tr_aliases = [k \in {"a", "b"} |-> "c"]
    /\ ~tr_result.ok
    /\ tr_result.exc = DuplicateAliasError(KwargsId, "c")

\* C7: with recurse, translating a structure that contains itself ends, and
\* ends in failure; the interpreter's recursion failure never leaves
\* translate: whenever it was raised inside, translate raises the cycle
\* error instead, and that is what a self-referential structure gets when
\* nothing else fails first.  Any other exception raised inside, a
\* RuntimeError whose message is not the recursion message included, leaves
\* translate as it was raised.
C7_CycleDetected ==
    TrDone =>
       /\ (tr_recursive /\ SelfReferential) => ~tr_result.ok
       /\ ~tr_result.ok => tr_result.exc.type # "RecursionError"
       /\ tr_raised = RecursionFailure => tr_result = Raise(CycleDetected)
       /\ (tr_recursive /\ SelfReferential /\ ~EntersCollision /\ ~EntersRaising)
             => /\ tr_raised = RecursionFailure
                /\ tr_result = Raise(CycleDetected)
       /\ (tr_raised # [kind |-> "None"]
             /\ tr_raised.msg \notin {RecursionMessage,
                                      "maximum recursion depth exceeded (raised by hand)"})
             => tr_result = Raise(tr_raised)
       /\ tr_raised = [kind |-> "None"] <=> tr_result.ok

\* kwargs {a: kwargs}, recurse: the recursion failure became the cycle error.
C7_Witness ==
    /\ TrDone
    /\ tr_heap[KwargsId] = [kind |-> "mapping", items |-> <<<<"a", RefVal(KwargsId)>>>>]
    /\ tr_recursive
    /\ tr_raised = RecursionFailure
    /\ tr_result = Raise(CycleDetected)

(***************************************************************************)
(* memoized                                                                *)
(***************************************************************************)

\* A list argument: an instance of a type without __hash__.
ListVal == [kind |-> "list"]

\* The argument tuples the wrapped function is called with.
MemoArgs == {<<>>,
             <<IntVal(1)>>,
             <<IntVal(2)>>,
             <<IntVal(1), IntVal(2)>>,
             <<ListVal>>,
             <<IntVal(1), ListVal>>}

\* isinstance(args, collections.abc.Hashable): args is the tuple of the
\* positional arguments, and the test asks whether its type, tuple, defines
\* __hash__; the elements are not looked at.
IsInstanceHashable(args) == TRUE

\* hash(args), which "args in self.cache" computes first: the hash of a
\* tuple hashes its elements and fails on a list.
HashFails(args) == \E i \in DOMAIN args : args[i].kind = "list"

\* self.func(*args): every evaluation gives a value of its own, so that a
\* cached value and a re-evaluation can be told apart.
FuncValue(args) == [args |-> args, evaluation |-> Len(memo_evals) + 1]

MemoInit ==
    /\ cache = [a \in {} |-> 0]
    /\ memo_evals = <<>>
    /\ memo_calls = 0
    /\ memo_last = [kind |-> "none"]

\* __call__(*args)
MemoCall ==
    /\ memo_calls < MaxMemoCalls
    /\ memo_calls' = memo_calls + 1
    /\ \E args \in MemoArgs :
          IF ~IsInstanceHashable(args)
          THEN /\ memo_evals' = Append(memo_evals, args)
               /\ memo_last' = [kind |-> "returned", args |-> args, value |-> FuncValue(args)]
               /\ UNCHANGED cache
          ELSE IF HashFails(args)
          THEN /\ memo_last' = [kind |-> "raised", args |-> args, exc |-> "TypeError"]
               /\ UNCHANGED <<cache, memo_evals>>
          ELSE IF args \in DOMAIN cache
          THEN /\ memo_last' = [kind |-> "returned", args |-> args, value |-> cache[args]]
               /\ UNCHANGED <<cache, memo_evals>>
          ELSE /\ memo_evals' = Append(memo_evals, args)
               /\ cache' = [a \in DOMAIN cache \cup {args} |->
                               IF a = args THEN FuncValue(args) ELSE cache[a]]
               /\ memo_last' = [kind |-> "returned", args |-> args, value |-> FuncValue(args)]
    /\ UNCHANGED nonMemoVars

InitMemo == MemoInit /\ RetryIdle /\ MdIdle /\ FqIdle /\ TrIdle /\ TaskIdle

NextMemo == MemoCall

SpecMemo == InitMemo /\ [][NextMemo]_vars

(***************************************************************************)
(* Properties of memoized                                                  *)
(***************************************************************************)

Evaluations(args) == {i \in DOMAIN memo_evals : memo_evals[i] = args}
Uncacheable(args) == \E i \in DOMAIN args : args[i].kind = "list"

\* C10: the function is evaluated at most once per argument tuple and a
\* later call with the same arguments returns the value of the first
\* evaluation; a call with a list among its arguments does not fail: the
\* function is invoked, its result is returned and nothing is cached.
C10_Memoized ==
    /\ \A args \in MemoArgs :
          ~Uncacheable(args) => Cardinality(Evaluations(args)) <= 1
    /\ (memo_last.kind = "returned" /\ ~Uncacheable(memo_last.args))
          => \E i \in Evaluations(memo_last.args) :
                memo_last.value = [args |-> memo_last.args, evaluation |-> i]
    /\ (memo_last.kind # "none" /\ Uncacheable(memo_last.args))
          => /\ memo_last.kind = "returned"
             /\ memo_last.args \notin DOMAIN cache

\* The part of C10 about cacheable arguments alone, which the code keeps.
C10_CacheableArgs ==
    /\ \A args \in MemoArgs :
          ~Uncacheable(args) => Cardinality(Evaluations(args)) <= 1
    /\ (memo_last.kind = "returned" /\ ~Uncacheable(memo_last.args))
          => \E i \in Evaluations(memo_last.args) :
                memo_last.value = [args |-> memo_last.args, evaluation |-> i]

(***************************************************************************)
(* RunTask and CloneTask: get_graph_queue and execute_nodes.               *)
(* Their code is dbt/task/run.py, clone.py and runnable.py; the model      *)
(* follows the design's Selection Engine, Graph Queue and Scheduler.       *)
(***************************************************************************)

Nodes == {"A", "B", "C"}
\* The full graph: A -> B -> C.
GraphEdges == {<<"A", "B">>, <<"B", "C">>}

Interrupts == {"KeyboardInterrupt", "SystemExit"}

\* b depends on a through some path of the full graph.
RECURSIVE ReachableVia(_, _)
ReachableVia(E, S) ==
    LET more == S \cup {e[2] : e \in {d \in E : d[1] \in S}}
    IN  IF more = S THEN S ELSE ReachableVia(E, more)
DependsOn(b, a) == b \in ReachableVia(GraphEdges, {e[2] : e \in {d \in GraphEdges : d[1] = a}})

\* select(graph, spec, preserveEdges): the edges among the selected nodes.
SubGraphEdges(spec, preserve_edges) ==
    {e \in spec \X spec :
        IF preserve_edges THEN DependsOn(e[2], e[1]) ELSE e \in GraphEdges}

\* The flag each task type passes for preserve_edges.
PreserveEdgesAlways(t) == TRUE
PreserveEdges(t) == t = "run"

\* Which exceptions of the run loop make the task cancel the connections.
CancelsOnAny(exc) == TRUE
CancelsOn(exc) == exc \in Interrupts

Upstream(n) == {e[1] : e \in {d \in queue_edges : d[2] = n}}
Downstream(n) == ReachableVia(queue_edges, {e[2] : e \in {d \in queue_edges : d[1] = n}})
RunningNodes == {n \in DOMAIN status : status[n] = "Running"}

TaskInit ==
    /\ task \in {"run", "clone"}
    /\ selection_spec \in (SUBSET Nodes) \ {{}}
    /\ selector_calls = <<>>
    /\ queue_edges = {}
    /\ status = <<>>
    /\ tk_pc = "created"
    /\ run_raised = "none"
    /\ task_raised = "none"
    /\ cancel_calls = 0

\* get_graph_queue(): asks the node selector for the queue.
GetGraphQueue ==
    /\ tk_pc = "created"
    /\ selector_calls' = Append(selector_calls,
                                [spec |-> selection_spec, preserve_edges |-> PreserveEdges(task)])
    /\ queue_edges' = SubGraphEdges(selection_spec, PreserveEdges(task))
    /\ status' = [n \in selection_spec |-> "Pending"]
    /\ tk_pc' = "queued"
    /\ UNCHANGED <<task, selection_spec, run_raised, task_raised, cancel_calls>>
    /\ UNCHANGED nonTaskVars

\* execute_nodes() enters the run loop.
ExecuteNodes ==
    /\ tk_pc = "queued"
    /\ tk_pc' = "running"
    /\ UNCHANGED <<task, selection_spec, selector_calls, queue_edges, status,
                   run_raised, task_raised, cancel_calls>>
    /\ UNCHANGED nonTaskVars

\* pop(): a pending node whose upstream nodes all succeeded starts running.
Pop ==
    /\ tk_pc = "running"
    /\ Cardinality(RunningNodes) < MaxThreads
    /\ \E n \in DOMAIN status :
          /\ status[n] = "Pending"
          /\ \A u \in Upstream(n) : status[u] = "Success"
          /\ status' = [status EXCEPT ![n] = "Running"]
    /\ UNCHANGED <<task, selection_spec, selector_calls, queue_edges, tk_pc,
                   run_raised, task_raised, cancel_calls>>
    /\ UNCHANGED nonTaskVars

\* markDone(node, Success)
MarkSuccess ==
    /\ tk_pc = "running"
    /\ \E n \in RunningNodes : status' = [status EXCEPT ![n] = "Success"]
    /\ UNCHANGED <<task, selection_spec, selector_calls, queue_edges, tk_pc,
                   run_raised, task_raised, cancel_calls>>
    /\ UNCHANGED nonTaskVars

\* markDone(node, Error): an ordinary failure of one node; its downstream
\* nodes are skipped and the run goes on.
MarkError ==
    /\ tk_pc = "running"
    /\ \E n \in RunningNodes :
          status' = [m \in DOMAIN status |->
                        IF m = n THEN "Error"
                        ELSE IF m \in Downstream(n) THEN "Skipped"
                        ELSE status[m]]
    /\ UNCHANGED <<task, selection_spec, selector_calls, queue_edges, tk_pc,
                   run_raised, task_raised, cancel_calls>>
    /\ UNCHANGED nonTaskVars

\* The run loop raises exc; execute_nodes cancels the connections if exc is
\* an interrupt, and exc goes on to the caller.
RunQueueRaises ==
    /\ tk_pc = "running"
    /\ \E exc \in Interrupts \cup {"Exception"} :
          /\ run_raised' = exc
          /\ cancel_calls' = IF CancelsOn(exc) THEN cancel_calls + 1 ELSE cancel_calls
          /\ task_raised' = exc
    /\ tk_pc' = "raised"
    /\ UNCHANGED <<task, selection_spec, selector_calls, queue_edges, status>>
    /\ UNCHANGED nonTaskVars

\* The queue is fully processed and execute_nodes returns.
RunCompletes ==
    /\ tk_pc = "running"
    /\ \A n \in DOMAIN status : status[n] \in {"Success", "Error", "Skipped"}
    /\ tk_pc' = "completed"
    /\ UNCHANGED <<task, selection_spec, selector_calls, queue_edges, status,
                   run_raised, task_raised, cancel_calls>>
    /\ UNCHANGED nonTaskVars

InitTask == TaskInit /\ RetryIdle /\ MdIdle /\ FqIdle /\ TrIdle /\ MemoIdle

NextTask ==
    \/ GetGraphQueue
    \/ ExecuteNodes
    \/ Pop
    \/ MarkSuccess
    \/ MarkError
    \/ RunQueueRaises
    \/ RunCompletes

SpecTask == InitTask /\ [][NextTask]_vars

(***************************************************************************)
(* Properties of the tasks                                                 *)
(***************************************************************************)

\* C3: when the run loop raises KeyboardInterrupt or SystemExit, the
\* connection-cancel operation has been called exactly once and the caller
\* of execute_nodes gets that same interrupt; when it raises an ordinary
\* Exception the operation has not been called and the caller gets the
\* exception; node failures inside a run that goes on cancel nothing.
C3_CancelOnInterruptOnly ==
    /\ (tk_pc = "raised" /\ run_raised \in {"KeyboardInterrupt", "SystemExit"})
          => cancel_calls = 1 /\ task_raised = run_raised
    /\ (tk_pc = "raised" /\ run_raised = "Exception")
          => cancel_calls = 0 /\ task_raised = "Exception"
    /\ tk_pc # "raised" => cancel_calls = 0 /\ task_raised = "none"

\* A KeyboardInterrupt arrived while a node was running, after another had failed.
C3_Witness ==
    /\ tk_pc = "raised"
    /\ run_raised = "KeyboardInterrupt"
    /\ cancel_calls = 1
    /\ \E n, m \in DOMAIN status : status[n] = "Running" /\ status[m] = "Error"

\* C8: get_graph_queue calls the node selector once, with the spec that
\* get_selection_spec returns and with preserve_edges True for RunTask and
\* False for CloneTask.
C8_PreserveEdgesPerTask ==
    tk_pc # "created" =>
       /\ Len(selector_calls) = 1
       /\ selector_calls[1].spec = selection_spec
       /\ task = "run" => selector_calls[1].preserve_edges = TRUE
       /\ task = "clone" => selector_calls[1].preserve_edges = FALSE

\* CloneTask selecting A and C: asked without edge preservation, so no edge A -> C.
C8_Witness ==
    /\ task = "clone"
    /\ selection_spec = {"A", "C"}
    /\ selector_calls = <<[spec |-> {"A", "C"}, preserve_edges |-> FALSE]>>
    /\ queue_edges = {}

====
